---- MODULE Spec2Model ----
(***************************************************************************)
(* anttp-monitor: the poll loop of the terminal dashboard (src/main.rs).   *)
(* One App value (job list, table cursor, filter mode, detail snapshot,    *)
(* client, last_tick) is driven by run_app: refresh when the tick is due,  *)
(* draw, then wait at most 100 ms for one terminal event.                  *)
(***************************************************************************)
EXTENDS Integers, Sequences, FiniteSets

VARIABLES
    commands,           \* App.commands: the job list, in the order received
    table_state,        \* App.table_state: the selected row, None or Some(i)
    filter_mode,        \* App.filter_mode
    selected_command,   \* App.selected_command: the detail snapshot
    client,             \* App.client is Some: the connection was made
    elapsed,            \* App.last_tick.elapsed(), in ms
    refresh_result,     \* the Result of refresh_commands until it is dropped
    frame,              \* what ui has put into the Frame, until draw returns
    pc                  \* where run_app stands

vars == <<commands, table_state, filter_mode, selected_command, client,
          elapsed, refresh_result, frame, pc>>

(***************************************************************************)
(* Bounds of the model and constants of the program.                       *)
(***************************************************************************)
\* jobs known to the data source; a response lists at most this many
MaxJobs == 2
\* longest time one terminal.draw may take, in poll timeouts
MaxDrawQuanta == 1
\* tick_rate of run_app, in ms
TickRateMs == 1000
\* timeout of event::poll, in ms
PollTimeoutMs == 100

(***************************************************************************)
(* Option<T>: None is the empty sequence, Some(x) the one-element one.     *)
(***************************************************************************)
None == <<>>
Some(x) == <<x>>
IsSome(o) == o # None
Unwrap(o) == o[1]

(***************************************************************************)
(* A string is the sequence of its characters' code points; Rust stores it *)
(* as UTF-8 and measures and slices it in bytes.                           *)
(***************************************************************************)
LowerChar(ch) == IF ch >= 65 /\ ch <= 90 THEN ch + 32 ELSE ch
ToAsciiLowercase(s) == [i \in 1..Len(s) |-> LowerChar(s[i])]

STR_waiting == <<119, 97, 105, 116, 105, 110, 103>>
STR_running == <<114, 117, 110, 110, 105, 110, 103>>
STR_completed == <<99, 111, 109, 112, 108, 101, 116, 101, 100>>
STR_aborted == <<97, 98, 111, 114, 116, 101, 100>>

\* state labels as the data source may spell them
LBL_Waiting == <<87, 97, 105, 116, 105, 110, 103>>
LBL_completed == STR_completed
JobStates == {LBL_Waiting, LBL_completed}

\* a Command of the service: id, state and the lifecycle instants in ms
\* (waiting_at: u64, 0 when unset; running_at, terminated_at: Option<u64>)
Command(id, state, waiting_at, running_at, terminated_at) ==
    [id |-> id, state |-> state, waiting_at |-> waiting_at,
     running_at |-> running_at, terminated_at |-> terminated_at]

\* the jobs of the data source: job i has the id "1", "2", ... and waits
\* since one fixed instant
JobIds == 1..MaxJobs
IdString(i) == <<48 + i>>
Jobs == {Command(IdString(i), st, 1770836575, None, None) :
            i \in JobIds, st \in JobStates}

RECURSIVE SeqsUpTo(_, _)
SeqsUpTo(S, n) ==
    IF n = 0 THEN {<<>>}
    ELSE LET shorter == SeqsUpTo(S, n - 1)
         IN  shorter \cup {Append(s, x) : s \in shorter, x \in S}

DistinctIds(s) == \A i, j \in 1..Len(s) : i # j => s[i].id # s[j].id

\* what one get_commands call can return
Responses == {s \in SeqsUpTo(Jobs, MaxJobs) : DistinctIds(s)}
Ok(resp) == <<"Ok", resp>>
Err == <<"Err">>
GetCommandsResults == {Err} \cup {Ok(resp) : resp \in Responses}

FilterModes == {"Default", "Waiting", "Running", "Completed", "Aborted", "All"}

(***************************************************************************)
(* App::filtered_commands                                                  *)
(***************************************************************************)
\* variant: the state is compared as spelled
Matches_as_spelled(c, mode) ==
    LET state == c.state
    IN  CASE mode = "Default" -> state = STR_waiting \/ state = STR_running
          [] mode = "Waiting" -> state = STR_waiting
          [] mode = "Running" -> state = STR_running
          [] mode = "Completed" -> state = STR_completed
          [] mode = "Aborted" -> state = STR_aborted
          [] mode = "All" -> TRUE

Matches(c, mode) ==
    LET state == ToAsciiLowercase(c.state)
    IN  CASE mode = "Default" -> state = STR_waiting \/ state = STR_running
          [] mode = "Waiting" -> state = STR_waiting
          [] mode = "Running" -> state = STR_running
          [] mode = "Completed" -> state = STR_completed
          [] mode = "Aborted" -> state = STR_aborted
          [] mode = "All" -> TRUE

RECURSIVE FilterSeq(_, _)
FilterSeq(cmds, mode) ==
    IF cmds = <<>> THEN <<>>
    ELSE IF Matches(Head(cmds), mode)
         THEN <<Head(cmds)>> \o FilterSeq(Tail(cmds), mode)
         ELSE FilterSeq(Tail(cmds), mode)

filtered_commands(cmds, mode) == FilterSeq(cmds, mode)

(***************************************************************************)
(* App::next and App::previous, as the new selection of table_state.       *)
(***************************************************************************)
next(sel, count) ==
    IF count = 0 THEN None
    ELSE IF IsSome(sel)
         THEN (IF Unwrap(sel) >= count - 1 THEN Some(0) ELSE Some(Unwrap(sel) + 1))
         ELSE Some(0)

\* variant: retreat stops at the first row
previous_stopping(sel, count) ==
    IF count = 0 THEN None
    ELSE IF IsSome(sel)
         THEN (IF Unwrap(sel) = 0 THEN Some(0) ELSE Some(Unwrap(sel) - 1))
         ELSE Some(0)

previous(sel, count) ==
    IF count = 0 THEN None
    ELSE IF IsSome(sel)
         THEN (IF Unwrap(sel) = 0 THEN Some(count - 1) ELSE Some(Unwrap(sel) - 1))
         ELSE Some(0)

(***************************************************************************)
(* App::refresh_commands: the job list after the call, given the outcome   *)
(* of get_commands.  Without a client no call is made.                     *)
(***************************************************************************)
\* variant: an error empties the list
refresh_commands_clearing(cmds, cl, result) ==
    IF cl /\ result[1] = "Ok" THEN result[2] ELSE <<>>

\* variant: the response is appended to the list
refresh_commands_appending(cmds, cl, result) ==
    IF cl /\ result[1] = "Ok" THEN cmds \o result[2] ELSE cmds

refresh_commands(cmds, cl, result) ==
    IF cl /\ result[1] = "Ok" THEN result[2] ELSE cmds

(***************************************************************************)
(* App::new and the entry of run_app.                                      *)
(***************************************************************************)
Init ==
    /\ commands = <<>>
    /\ table_state = None
    /\ filter_mode = "Default"
    /\ selected_command = None
    /\ client \in BOOLEAN
    /\ elapsed = 0
    /\ refresh_result = None
    /\ frame = None
    /\ pc = "loop"

Browsing == selected_command = None
DetailOpen == selected_command # None

(***************************************************************************)
(* run_app, top of the loop: is the tick due?                              *)
(***************************************************************************)
RefreshDue ==
    /\ pc = "loop"
    /\ elapsed >= TickRateMs
    /\ pc' = "refresh"
    /\ UNCHANGED <<commands, table_state, filter_mode, selected_command,
                   client, elapsed, refresh_result, frame>>

\* variant: no refresh while the detail view is open
RefreshNotDue_or_detail ==
    /\ pc = "loop"
    /\ elapsed < TickRateMs \/ selected_command # None
    /\ pc' = "draw"
    /\ UNCHANGED <<commands, table_state, filter_mode, selected_command,
                   client, elapsed, refresh_result, frame>>

RefreshNotDue ==
    /\ pc = "loop"
    /\ elapsed < TickRateMs
    /\ pc' = "draw"
    /\ UNCHANGED <<commands, table_state, filter_mode, selected_command,
                   client, elapsed, refresh_result, frame>>

(***************************************************************************)
(* let _ = app.refresh_commands().await;                                   *)
(* The call returns with `result`: Ok with the response, or the error of   *)
(* get_commands.  Without a client no call is made and it returns Ok.      *)
(***************************************************************************)
\* the job of list cmds with the id of snapshot snap, else snap
Resynced(snap, cmds) ==
    IF snap # None /\ \E i \in 1..Len(cmds) : cmds[i].id = Unwrap(snap).id
    THEN Some(cmds[CHOOSE i \in 1..Len(cmds) : cmds[i].id = Unwrap(snap).id])
    ELSE snap

\* variant: the snapshot follows the job in the new list
Refresh_resyncing(result) ==
    /\ pc = "refresh"
    /\ client
    /\ commands' = refresh_commands(commands, client, result)
    /\ selected_command' = Resynced(selected_command, commands')
    /\ refresh_result' = Some(result[1])
    /\ pc' = "tick"
    /\ UNCHANGED <<table_state, filter_mode, client, elapsed, frame>>

Refresh(result) ==
    /\ pc = "refresh"
    /\ client
    /\ commands' = refresh_commands(commands, client, result)
    /\ refresh_result' = Some(result[1])
    /\ pc' = "tick"
    /\ UNCHANGED <<table_state, filter_mode, selected_command, client, elapsed,
                   frame>>

\* variant: a missing client is an error that ends run_app
RefreshNoClient_failing ==
    /\ pc = "refresh"
    /\ ~client
    /\ pc' = "returned_err"
    /\ UNCHANGED <<commands, table_state, filter_mode, selected_command,
                   client, elapsed, refresh_result, frame>>

RefreshNoClient ==
    /\ pc = "refresh"
    /\ ~client
    /\ commands' = refresh_commands(commands, client, Err)
    /\ refresh_result' = Some("Ok")
    /\ pc' = "tick"
    /\ UNCHANGED <<table_state, filter_mode, selected_command, client, elapsed,
                   frame>>

\* the Result is dropped; app.last_tick = Instant::now();
ResetTick ==
    /\ pc = "tick"
    /\ elapsed' = 0
    /\ refresh_result' = None
    /\ pc' = "draw"
    /\ UNCHANGED <<commands, table_state, filter_mode, selected_command, client,
                   frame>>

(***************************************************************************)
(* format_id: len() and the slices count bytes of the UTF-8 encoding; a    *)
(* slice that does not fall on a character boundary panics.                *)
(***************************************************************************)
Utf8Len(cp) ==
    IF cp < 128 THEN 1 ELSE IF cp < 2048 THEN 2 ELSE IF cp < 65536 THEN 3 ELSE 4

RECURSIVE ByteLen(_)
ByteLen(str) ==
    IF str = <<>> THEN 0 ELSE Utf8Len(Head(str)) + ByteLen(Tail(str))

\* byte offset b lies between two characters of str (or at an end)
IsCharBoundary(str, b) ==
    \E n \in 0..Len(str) : ByteLen(SubSeq(str, 1, n)) = b

\* the number of characters before byte offset b, a character boundary
CharsBefore(str, b) ==
    CHOOSE n \in 0..Len(str) : ByteLen(SubSeq(str, 1, n)) = b

\* the value that stands for a panic of the thread
Panic == <<-1>>

format_id(id) ==
    IF ByteLen(id) <= 6 THEN id
    ELSE IF IsCharBoundary(id, 3) /\ IsCharBoundary(id, ByteLen(id) - 3)
         THEN SubSeq(id, 1, CharsBefore(id, 3))
              \o <<46, 46>>
              \o SubSeq(id, CharsBefore(id, ByteLen(id) - 3) + 1, Len(id))
         ELSE Panic

(***************************************************************************)
(* format_duration_ms: ms as f64 / 1000.0 printed with {:.3}.  For the     *)
(* instants of the model (below 2^31 ms) the f64 quotient prints as the    *)
(* whole seconds, a point and the three digits of the remainder.           *)
(***************************************************************************)
RECURSIVE DecString(_)
DecString(n) ==
    IF n < 10 THEN <<48 + n>>
    ELSE DecString(n \div 10) \o <<48 + (n % 10)>>

format_duration_ms(ms) ==
    DecString(ms \div 1000)
    \o <<46>>
    \o <<48 + ((ms % 1000) \div 100), 48 + ((ms % 100) \div 10), 48 + (ms % 10)>>

(***************************************************************************)
(* compute_durations                                                       *)
(***************************************************************************)
\* variant: a zero instant counts as set
FilterPositive_keeping_zero(o) == o

\* Option::filter(|t| *t > 0)
FilterPositive(o) == IF IsSome(o) /\ Unwrap(o) > 0 THEN o ELSE None
\* Option::unwrap_or
UnwrapOr(o, dflt) == IF IsSome(o) THEN Unwrap(o) ELSE dflt
\* u64::saturating_sub
SaturatingSub(a, b) == IF a >= b THEN a - b ELSE 0
\* "-"
STR_dash == <<45>>

\* variant: waiting and running are measured up to now, not to the next stage
compute_durations_to_now(waiting_at, running_at, terminated_at, now_ms) ==
    LET w == FilterPositive(waiting_at)
        r == FilterPositive(running_at)
        t == FilterPositive(terminated_at)
    IN  <<IF IsSome(w) THEN format_duration_ms(SaturatingSub(now_ms, Unwrap(w)))
          ELSE STR_dash,
          IF IsSome(r) THEN format_duration_ms(SaturatingSub(now_ms, Unwrap(r)))
          ELSE STR_dash,
          IF IsSome(t) THEN format_duration_ms(SaturatingSub(now_ms, Unwrap(t)))
          ELSE STR_dash>>

compute_durations(waiting_at, running_at, terminated_at, now_ms) ==
    LET w == FilterPositive(waiting_at)
        r == FilterPositive(running_at)
        t == FilterPositive(terminated_at)
        waiting_str ==
            IF IsSome(w)
            THEN format_duration_ms(SaturatingSub(UnwrapOr(r, now_ms), Unwrap(w)))
            ELSE STR_dash
        running_str ==
            IF IsSome(r)
            THEN format_duration_ms(SaturatingSub(UnwrapOr(t, now_ms), Unwrap(r)))
            ELSE STR_dash
        completed_str ==
            IF IsSome(t)
            THEN format_duration_ms(SaturatingSub(now_ms, Unwrap(t)))
            ELSE STR_dash
    IN  <<waiting_str, running_str, completed_str>>

(***************************************************************************)
(* ui: the frame is a projection of App (the table title, one row per      *)
(* filtered job, the detail overlay; name and properties are copied text   *)
(* and left out).  The Table widget is handed &mut app.table_state.  The   *)
(* widget is not part of this repository: it either leaves the selection   *)
(* alone (nothing to draw into) or brings it within the rows it was given  *)
(* (None when there are no rows).                                          *)
(***************************************************************************)
render_stateful_widget(sel, rows, adjusts) ==
    IF ~adjusts THEN sel
    ELSE IF rows = 0 THEN None
    ELSE IF IsSome(sel) /\ Unwrap(sel) >= rows THEN Some(rows - 1)
    ELSE sel

\* the durations of a job as ui asks for them
Durations(item, now_ms) ==
    compute_durations(IF item.waiting_at > 0 THEN Some(item.waiting_at) ELSE None,
                      item.running_at, item.terminated_at, now_ms)

\* the cells of one table row
Row(item, now_ms) ==
    LET d == Durations(item, now_ms)
    IN  [id |-> format_id(item.id), state |-> item.state,
         wait |-> d[1], run |-> d[2], comp |-> d[3]]

\* the lines of the detail overlay
Detail(cmd, now_ms) ==
    LET d == Durations(cmd, now_ms)
    IN  [id |-> cmd.id, state |-> cmd.state,
         wait |-> d[1], run |-> d[2], comp |-> d[3]]

Title(mode) ==
    CASE mode = "Default" -> "Default (W/R)"
      [] mode = "Waiting" -> "Waiting"
      [] mode = "Running" -> "Running"
      [] mode = "Completed" -> "Completed"
      [] mode = "Aborted" -> "Aborted"
      [] mode = "All" -> "All"

Rows(cmds, mode, now_ms) ==
    LET filtered == filtered_commands(cmds, mode)
        row == [item \in {filtered[i] : i \in DOMAIN filtered} |-> Row(item, now_ms)]
    IN  [i \in DOMAIN filtered |-> row[filtered[i]]]

\* building the rows panics in format_id
UiPanics(cmds, mode) ==
    LET filtered == filtered_commands(cmds, mode)
    IN  \E i \in 1..Len(filtered) : format_id(filtered[i].id) = Panic

\* detail_now_ms: the overlay reads the clock again
ui(adjusts, now_ms, detail_now_ms) ==
    LET rows == Rows(commands, filter_mode, now_ms)
    IN  /\ table_state' = render_stateful_widget(table_state, Len(rows), adjusts)
        /\ frame' = Some([title |-> Title(filter_mode),
                          rows |-> rows,
                          detail |-> IF selected_command # None
                                     THEN Some(Detail(Unwrap(selected_command), detail_now_ms))
                                     ELSE None])
        /\ UNCHANGED <<commands, filter_mode, selected_command>>

\* Utc::now().timestamp_millis() as the loop reads it.  The clock is not part
\* of App and nothing but the frame depends on it: the loop reads one instant.
Nows == {1770846698}

DrawDurations == {q * PollTimeoutMs : q \in 0..MaxDrawQuanta}

\* terminal.draw(|f| ui(f, app)): the closure runs
Draw(now_ms, detail_now_ms) ==
    /\ pc = "draw"
    /\ IF UiPanics(commands, filter_mode)
       THEN /\ pc' = "panicked"
            /\ UNCHANGED <<commands, table_state, filter_mode, selected_command,
                           frame>>
       ELSE /\ \E adjusts \in BOOLEAN : ui(adjusts, now_ms, detail_now_ms)
            /\ pc' = "flush"
    /\ UNCHANGED <<client, elapsed, refresh_result>>

\* terminal.draw returns Ok: the frame has gone to the terminal
DrawReturns ==
    /\ pc = "flush"
    /\ frame' = None
    /\ \E d \in DrawDurations : elapsed' = elapsed + d
    /\ pc' = "poll"
    /\ UNCHANGED <<commands, table_state, filter_mode, selected_command,
                   client, refresh_result>>

\* terminal.draw returns an error and `?` returns it from run_app
DrawError ==
    /\ pc = "flush"
    /\ frame' = None
    /\ pc' = "returned_err"
    /\ UNCHANGED <<commands, table_state, filter_mode, selected_command,
                   client, elapsed, refresh_result>>

(***************************************************************************)
(* event::poll(Duration::from_millis(100))? and event::read()?             *)
(***************************************************************************)
PollTimeout ==
    /\ pc = "poll"
    /\ elapsed' = elapsed + PollTimeoutMs
    /\ pc' = "loop"
    /\ UNCHANGED <<commands, table_state, filter_mode, selected_command,
                   client, refresh_result, frame>>

\* poll or read fails and `?` returns the error from run_app
EventError ==
    /\ pc = "poll"
    /\ pc' = "returned_err"
    /\ UNCHANGED <<commands, table_state, filter_mode, selected_command,
                   client, elapsed, refresh_result, frame>>

\* an event arrives within the timeout
EventDelays == {0, PollTimeoutMs}

\* an event that is not Event::Key (mouse, resize, ...)
OtherEvent ==
    /\ pc = "poll"
    /\ \E d \in EventDelays : elapsed' = elapsed + d
    /\ pc' = "loop"
    /\ UNCHANGED <<commands, table_state, filter_mode, selected_command,
                   client, refresh_result, frame>>

(***************************************************************************)
(* Event::Key(key): the key codes run_app tells apart, and one it does not.*)
(***************************************************************************)
Keys == {"q", "Down", "j", "Up", "k", "Enter", "w", "r", "c", "b", "a", "d",
         "Left", "Backspace", "x"}
CloseKeys == {"Enter", "Left", "Backspace"}
NextKeys == {"Down", "j"}
PreviousKeys == {"Up", "k"}
ModeKeys == {"w", "r", "c", "b", "a", "d"}

\* the filter mode each mode key selects
KeyMode(k) ==
    CASE k = "w" -> "Waiting"
      [] k = "r" -> "Running"
      [] k = "c" -> "Completed"
      [] k = "b" -> "Aborted"
      [] k = "a" -> "All"
      [] k = "d" -> "Default"

\* variant: only Enter closes the detail view
DetailKey_enter_only(k) ==
    /\ selected_command' = IF k = "Enter" THEN None ELSE selected_command
    /\ pc' = "loop"
    /\ UNCHANGED <<commands, table_state, filter_mode>>

\* variant: after a key in the detail view the next event is read at once
DetailKey_polling(k) ==
    /\ selected_command' = IF k \in CloseKeys THEN None ELSE selected_command
    /\ pc' = "poll"
    /\ UNCHANGED <<commands, table_state, filter_mode>>

\* variant: q is honoured in the detail view too
DetailKey_quitting(k) ==
    /\ selected_command' = IF k \in CloseKeys THEN None ELSE selected_command
    /\ pc' = IF k = "q" THEN "returned_ok" ELSE "loop"
    /\ UNCHANGED <<commands, table_state, filter_mode>>

\* if app.selected_command.is_some() { match key.code { ... } continue; }
DetailKey(k) ==
    /\ selected_command' = IF k \in CloseKeys THEN None ELSE selected_command
    /\ pc' = "loop"
    /\ UNCHANGED <<commands, table_state, filter_mode>>

\* variant: the cursor indexes the job list, not the filtered list
EnterSnapshot_unfiltered(cmds, mode, sel) ==
    IF IsSome(sel) /\ Unwrap(sel) + 1 <= Len(cmds)
    THEN Some(cmds[Unwrap(sel) + 1])
    ELSE None

\* KeyCode::Enter of the second match: the selected row of the filtered list
EnterSnapshot(cmds, mode, sel) ==
    LET filtered == filtered_commands(cmds, mode)
    IN  IF IsSome(sel) /\ Unwrap(sel) + 1 <= Len(filtered)
        THEN Some(filtered[Unwrap(sel) + 1])
        ELSE None

\* the selection a mode key leaves: table_state.select(Some(0))
ModeSelection(cmds, mode) == Some(0)

\* variant: the quit key is handled like an unbound key
QuitKey_continues ==
    /\ pc' = "loop"
    /\ UNCHANGED <<commands, table_state, filter_mode, selected_command>>

\* KeyCode::Char('q') => return Ok(())
QuitKey ==
    /\ pc' = "returned_ok"
    /\ UNCHANGED <<commands, table_state, filter_mode, selected_command>>

\* the second match of run_app
BrowseKey(k) ==
    LET count == Len(filtered_commands(commands, filter_mode))
    IN  CASE k = "q" -> QuitKey
          [] k \in NextKeys ->
               /\ table_state' = next(table_state, count)
               /\ pc' = "loop"
               /\ UNCHANGED <<commands, filter_mode, selected_command>>
          [] k \in PreviousKeys ->
               /\ table_state' = previous(table_state, count)
               /\ pc' = "loop"
               /\ UNCHANGED <<commands, filter_mode, selected_command>>
          [] k = "Enter" ->
               /\ selected_command' = EnterSnapshot(commands, filter_mode, table_state)
               /\ pc' = "loop"
               /\ UNCHANGED <<commands, table_state, filter_mode>>
          [] k \in ModeKeys ->
               /\ filter_mode' = KeyMode(k)
               /\ table_state' = ModeSelection(commands, KeyMode(k))
               /\ pc' = "loop"
               /\ UNCHANGED <<commands, selected_command>>
          [] OTHER ->
               /\ pc' = "loop"
               /\ UNCHANGED <<commands, table_state, filter_mode, selected_command>>

\* variant: keys are handled as in Browsing whether or not a detail is open
KeyEvent_browse_only(k) ==
    /\ pc = "poll"
    /\ \E d \in EventDelays : elapsed' = elapsed + d
    /\ BrowseKey(k)
    /\ UNCHANGED <<client, refresh_result, frame>>

\* if let Event::Key(key) = event::read()? { ... }
KeyEvent(k) ==
    /\ pc = "poll"
    /\ \E d \in EventDelays : elapsed' = elapsed + d
    /\ IF selected_command # None THEN DetailKey(k) ELSE BrowseKey(k)
    /\ UNCHANGED <<client, refresh_result, frame>>

Next ==
    \/ RefreshDue
    \/ RefreshNotDue
    \/ \E result \in GetCommandsResults : Refresh(result)
    \/ RefreshNoClient
    \/ ResetTick
    \/ \E now_ms, detail_now_ms \in Nows : Draw(now_ms, detail_now_ms)
    \/ DrawReturns
    \/ DrawError
    \/ PollTimeout
    \/ EventError
    \/ OtherEvent
    \/ \E k \in Keys : KeyEvent(k)

Spec == Init /\ [][Next]_vars

(***************************************************************************)
(* Properties of the poll loop.                                            *)
(***************************************************************************)
Filtered == filtered_commands(commands, filter_mode)

CursorInRange(sel, n) == sel = None \/ (Unwrap(sel) >= 0 /\ Unwrap(sel) < n)

\* C1: in every reachable state of the loop the selection cursor is None or
\* an index 0 <= i < len(filtered) of the current job list filtered under
\* the current mode; it is never Some(_) over an empty filtered list.
C1_CursorAlwaysValid == CursorInRange(table_state, Len(Filtered))

\* the six filter-mode inputs and the mode each selects
ModeInputs == {<<"d", "Default">>, <<"w", "Waiting">>, <<"r", "Running">>,
               <<"c", "Completed">>, <<"b", "Aborted">>, <<"a", "All">>}

\* C2: in Browsing each filter-mode input sets the filter mode to the
\* selected mode and resets the cursor to Some(0) when the job list filtered
\* under the new mode is non-empty, and to None when it is empty.
C2_ModeKeyResetsCursor ==
    [][\A in \in ModeInputs :
          (Browsing /\ KeyEvent(in[1])) =>
              /\ filter_mode' = in[2]
              /\ table_state' = IF Len(filtered_commands(commands, in[2])) > 0
                                THEN Some(0) ELSE None]_vars

\* C3: a due refresh that fails leaves the job list, filter mode, cursor and
\* snapshot as they were, the loop goes on to draw (the error is dropped, not
\* returned), the client is kept and the tick restarts, so the next tick
\* tries again.
C3_FailedRefreshKeepsState ==
    [][/\ Refresh(Err) =>
            /\ UNCHANGED <<commands, filter_mode, table_state, selected_command>>
            /\ refresh_result' = Some("Err")
            /\ pc' = "tick"
       /\ (pc = "tick" /\ refresh_result = Some("Err")) =>
            /\ UNCHANGED <<commands, filter_mode, table_state, selected_command>>
            /\ client' = client
            /\ elapsed' = 0
            /\ pc' = "draw"]_vars

\* a failed refresh has just returned while a detail view is open over a
\* non-empty job list
C3_Witness ==
    /\ pc = "tick"
    /\ refresh_result = Some("Err")
    /\ commands # <<>>
    /\ table_state # None
    /\ DetailOpen

\* C4: after every successful refresh the job list is exactly the list the
\* data source returned for that poll, in the returned order, whatever the
\* list was before; nothing else of the App changes.
C4_RefreshReplacesList ==
    [][\A resp \in Responses :
          Refresh(Ok(resp)) =>
              /\ commands' = resp
              /\ UNCHANGED <<filter_mode, table_state, selected_command>>]_vars

\* a successful refresh has just replaced a list by one that drops a job of
\* the detail snapshot
C4_Witness ==
    /\ pc = "tick"
    /\ refresh_result = Some("Ok")
    /\ Len(commands) = 1
    /\ DetailOpen
    /\ \A i \in 1..Len(commands) : commands[i].id # Unwrap(selected_command).id

\* C5: while the detail view is open the snapshot stays the record captured
\* at confirm, across refreshes of either outcome; it changes only by being
\* closed (to None, by a close key).
C5_SnapshotDetached ==
    [][DetailOpen =>
          \/ selected_command' = selected_command
          \/ /\ selected_command' = None
             /\ \E k \in {"Enter", "Left", "Backspace"} : KeyEvent(k)]_vars

\* the detail view is open on a job that the current list holds in another
\* state
C5_Witness ==
    /\ DetailOpen
    /\ \E i \in 1..Len(commands) :
          /\ commands[i].id = Unwrap(selected_command).id
          /\ commands[i].state # Unwrap(selected_command).state

\* C6: in Browsing, Enter opens the detail view if and only if the cursor is
\* Some(i) with i < len(filtered); the snapshot is then filtered[i]; cursor,
\* filter mode and job list are untouched; otherwise the state stays Browsing.
C6_EnterOpensDetail ==
    [][(Browsing /\ KeyEvent("Enter")) =>
          LET valid == table_state # None /\ Unwrap(table_state) < Len(Filtered)
          IN  /\ (selected_command' # None) <=> valid
              /\ valid => selected_command' = Some(Filtered[Unwrap(table_state) + 1])
              /\ UNCHANGED <<commands, table_state, filter_mode>>
              /\ pc' = "loop"]_vars

\* the detail view was opened on the first row of a filtered list whose
\* first row is not the first job of the list
C6_Witness ==
    /\ DetailOpen
    /\ pc = "loop"
    /\ table_state = Some(0)
    /\ Len(Filtered) = 1
    /\ Len(commands) = 2
    /\ commands[1] # Filtered[1]
    /\ selected_command = Some(Filtered[1])

\* C7: in DetailOpen, Enter, Left and Backspace discard the snapshot and
\* return to Browsing; cursor, filter mode and job list are unchanged.
C7_CloseKeysReturnToBrowsing ==
    [][\A k \in {"Enter", "Left", "Backspace"} :
          (DetailOpen /\ KeyEvent(k)) =>
              /\ selected_command' = None
              /\ UNCHANGED <<commands, table_state, filter_mode>>
              /\ pc' = "loop"]_vars

\* an event is awaited with the detail view open, after a refresh left the
\* cursor past the end of the filtered list
C7_Witness ==
    /\ DetailOpen
    /\ pc = "poll"
    /\ table_state # None
    /\ Unwrap(table_state) >= Len(Filtered)

\* C8: in DetailOpen the navigation inputs and the six filter-mode inputs
\* change none of the cursor, the filter mode and the snapshot.
C8_DetailIgnoresNavAndModes ==
    [][\A k \in {"Down", "j", "Up", "k", "d", "w", "r", "c", "b", "a"} :
          (DetailOpen /\ KeyEvent(k)) =>
              /\ UNCHANGED <<table_state, filter_mode, selected_command, commands>>
              /\ pc' = "loop"]_vars

\* an event is awaited with the detail view open over a list in which both
\* navigation and a mode switch would move the cursor
C8_Witness ==
    /\ DetailOpen
    /\ pc = "poll"
    /\ filter_mode = "All"
    /\ Len(commands) >= 2
    /\ table_state = Some(1)

Returned == pc \in {"returned_ok", "returned_err"}

\* C9: a quit input in Browsing ends the loop with Ok; that state is
\* terminal: nothing is refreshed, drawn or handled after it and the
\* state never changes again.
C9_QuitIsTerminal ==
    [][/\ (Browsing /\ KeyEvent("q")) =>
            /\ pc' = "returned_ok"
            /\ UNCHANGED <<commands, table_state, filter_mode, selected_command>>
       /\ pc # "returned_ok"]_vars

\* the loop has returned Ok with a job list and a cursor
C9_Witness ==
    /\ pc = "returned_ok"
    /\ commands # <<>>
    /\ table_state # None

(***************************************************************************)
(* The loop under the scheduling it runs with: a call that was made        *)
(* returns (get_commands, draw, poll and read complete or fail), so the    *)
(* loop takes its next step whenever it has one; and the clock does not    *)
(* stand still over infinitely many iterations.                            *)
(***************************************************************************)
TimePasses ==
    /\ DrawReturns \/ PollTimeout \/ OtherEvent \/ \E k \in Keys : KeyEvent(k)
    /\ elapsed' > elapsed

FairSpec == Spec /\ WF_vars(Next) /\ SF_vars(TimePasses)

RefreshAttempted == pc = "refresh"

\* a due tick is followed by a refresh attempt, in Browsing and in DetailOpen
DueTickRefreshes ==
    [][(pc = "loop" /\ elapsed >= TickRateMs) => pc' = "refresh"]_vars

C11_NoClientKeepsRunning ==
    /\ [](~client => commands = <<>>)
    /\ [][(~client /\ pc = "refresh") =>
             /\ refresh_result' = Some("Ok")
             /\ UNCHANGED <<commands, table_state, filter_mode, selected_command>>
             /\ pc' = "tick"]_vars
    /\ [][(~client /\ pc = "tick") =>
             /\ UNCHANGED <<commands, table_state, filter_mode, selected_command>>
             /\ pc' = "draw"]_vars

\* without a client a due refresh has returned Ok, after a mode key had
\* moved the cursor
C11_Witness ==
    /\ ~client
    /\ pc = "tick"
    /\ refresh_result = Some("Ok")
    /\ table_state # None
    /\ filter_mode = "All"

(***************************************************************************)
(* One frame of any App: the state before terminal.draw is drawn from the  *)
(* lists a data source may have returned, the six modes, cursors in and    *)
(* out of range and a snapshot or none; the clock reads one of the         *)
(* instants of the examples in the tests.                                  *)
(***************************************************************************)
\* longest job list of a frame
MaxRenderJobs == 3

\* more spellings of state labels, and a state no single-state mode names
LBL_RUNNING == <<82, 85, 78, 78, 73, 78, 71>>
LBL_Aborted == <<65, 98, 111, 114, 116, 101, 100>>
LBL_failed == <<102, 97, 105, 108, 101, 100>>
RenderStates == {LBL_Waiting, LBL_RUNNING, LBL_completed, LBL_Aborted, LBL_failed}

\* lists of up to MaxRenderJobs jobs "1", "2", ... in any states
StateLists ==
    UNION {{[i \in 1..n |-> Command(IdString(i), st[i], 1770836575, None, None)] :
               st \in [1..n -> RenderStates]} : n \in 0..MaxRenderJobs}

\* one job with each combination of unset, zero and set instants, in and out
\* of order, before and after the clock
WaitingAts == {0, 1770810000, 1770836575}
RunningAts == {None, Some(0), Some(1770820000), Some(1770840000)}
TerminatedAts == {None, Some(0), Some(1770830000), Some(1770850000)}
StampLists ==
    {<<Command(IdString(1), LBL_RUNNING, w, r, t)>> :
        w \in WaitingAts, r \in RunningAts, t \in TerminatedAts}

\* identifiers: "", "123", "123456", "1234567", "123456789", and two that
\* are not ASCII, of four two-byte and of seven three-byte characters
RenderIds ==
    {<<>>, <<49, 50, 51>>, <<49, 50, 51, 52, 53, 54>>,
     <<49, 50, 51, 52, 53, 54, 55>>,
     <<49, 50, 51, 52, 53, 54, 55, 56, 57>>,
     <<233, 233, 233, 233>>,
     <<26085, 26412, 35486, 12486, 12461, 12473, 12488>>}
IdLists ==
    {<<Command(id, LBL_Waiting, 1770836575, None, None)>> : id \in RenderIds}

RenderLists == StateLists \cup StampLists \cup IdLists
RenderNows == {1770840000, 1770846698, 1770850000}

RenderInit ==
    /\ commands \in RenderLists
    /\ table_state \in {None, Some(0), Some(Len(commands))}
    /\ filter_mode \in FilterModes
    /\ selected_command \in
           IF commands = <<>> THEN {None} ELSE {None, Some(Head(commands))}
    /\ client = TRUE
    /\ elapsed = 0
    /\ refresh_result = None
    /\ frame = None
    /\ pc = "draw"

RenderNext ==
    \/ \E now_ms, detail_now_ms \in RenderNows : Draw(now_ms, detail_now_ms)
    \/ DrawReturns
    \/ DrawError

RenderSpec == RenderInit /\ [][RenderNext]_vars

\* C12: in Browsing with a cursor that is None or a valid index of the
\* filtered list of length n, an advance or retreat input yields None when
\* n = 0; for n > 0 advance maps None to 0, Some(i) to i+1 when i+1 < n and
\* to 0 otherwise, and retreat maps None to 0, Some(0) to n-1 and Some(i) to
\* i-1 otherwise.
C12_NavigatorRules ==
    [][\A k \in {"Down", "j", "Up", "k"} :
          (/\ Browsing
           /\ CursorInRange(table_state, Len(Filtered))
           /\ KeyEvent(k)) =>
              LET n == Len(Filtered)
                  i == Unwrap(table_state)
                  advance == IF table_state = None THEN 0
                             ELSE IF i + 1 < n THEN i + 1 ELSE 0
                  retreat == IF table_state = None THEN 0
                             ELSE IF i = 0 THEN n - 1 ELSE i - 1
              IN  table_state' = IF n = 0 THEN None
                                 ELSE IF k \in {"Down", "j"} THEN Some(advance)
                                 ELSE Some(retreat)]_vars

\* a key is awaited in Browsing with the cursor on the first of two rows:
\* retreat wraps to the last row, advance moves on to it
C12_Witness ==
    /\ Browsing
    /\ pc = "poll"
    /\ Len(Filtered) = 2
    /\ table_state = Some(0)

\* two strings are the same up to the case of their ASCII letters
SameIgnoringCase(a, b) ==
    /\ Len(a) = Len(b)
    /\ \A i \in 1..Len(a) :
          \/ a[i] = b[i]
          \/ a[i] \in 65..90 /\ a[i] + 32 = b[i]
          \/ b[i] \in 65..90 /\ b[i] + 32 = a[i]

\* the predicate of a filter mode on a state label
Satisfies(state, mode) ==
    \/ mode = "All"
    \/ mode \in {"Default", "Waiting"} /\ SameIgnoringCase(state, STR_waiting)
    \/ mode \in {"Default", "Running"} /\ SameIgnoringCase(state, STR_running)
    \/ mode = "Completed" /\ SameIgnoringCase(state, STR_completed)
    \/ mode = "Aborted" /\ SameIgnoringCase(state, STR_aborted)

\* the positions of the job list whose job the mode keeps
Kept == {i \in 1..Len(commands) : Satisfies(commands[i].state, filter_mode)}
\* the j-th of them in list order
KeptAt(j) == CHOOSE k \in Kept : Cardinality({x \in Kept : x < k}) = j - 1

\* C13: for every job list and mode, the rows of the frame ui builds are exactly the
\* jobs whose state satisfies the mode's predicate compared case-
\* insensitively, in the order of the job list; the job list and the mode
\* are as before, and so is a cursor that is None or within the rows.
C13_FilterExact ==
    [][(pc = "draw" /\ pc' = "flush") =>
              LET rows == Unwrap(frame').rows
              IN  /\ Len(rows) = Cardinality(Kept)
                  /\ \A j \in 1..Len(rows) :
                        /\ rows[j].state = commands[KeptAt(j)].state
                        /\ rows[j].id = format_id(commands[KeptAt(j)].id)
                  /\ UNCHANGED <<commands, filter_mode>>
                  /\ CursorInRange(table_state, Cardinality(Kept)) =>
                         table_state' = table_state]_vars

\* a frame of mode Default over a waiting, a failed and a running job, spelled
\* "Waiting", "failed", "RUNNING": two rows, the first and the third job
C13_Witness ==
    /\ pc = "flush"
    /\ filter_mode = "Default"
    /\ Len(commands) = 3
    /\ commands[1].state = LBL_Waiting
    /\ commands[2].state = LBL_failed
    /\ commands[3].state = LBL_RUNNING
    /\ Len(Unwrap(frame).rows) = 2
    /\ Unwrap(frame).rows[2].id = commands[3].id

\* an instant is unset when absent or zero
Unset(at) == at = None \/ at = Some(0)

\* the three duration cells are "-" exactly for the unset instants of job c
DashesMatch(cells, c) ==
    /\ cells.wait = <<45>> <=> c.waiting_at = 0
    /\ cells.run = <<45>> <=> Unset(c.running_at)
    /\ cells.comp = <<45>> <=> Unset(c.terminated_at)

\* C14: for every combination of waiting_at, running_at and terminated_at
\* (absent, zero or positive) and every now_ms, each duration of a row and of
\* the detail overlay is "-" if and only if its own instant is unset,
\* whatever the other two are; so is the waiting duration when
\* compute_durations is called with Some(0), which ui never passes.
C14_DashIffUnset ==
    [][(pc = "draw" /\ pc' = "flush") =>
              LET rows == Unwrap(frame').rows
                  detail == Unwrap(frame').detail
              IN  /\ \A j \in 1..Len(rows) :
                        DashesMatch(rows[j], commands[KeptAt(j)])
                  /\ detail # None =>
                        DashesMatch(Unwrap(detail), Unwrap(selected_command))
                  /\ \A r \in RunningAts, t \in TerminatedAts, now_ms \in RenderNows :
                        LET d == compute_durations(Some(0), r, t, now_ms)
                        IN  /\ d[1] = <<45>>
                            /\ d[2] = <<45>> <=> Unset(r)
                            /\ d[3] = <<45>> <=> Unset(t)]_vars

\* a frame with a row of a job whose waiting_at is 0, whose running_at is
\* Some(0) and whose terminated_at is set: "-", "-" and a duration
C14_Witness ==
    /\ pc = "flush"
    /\ Len(commands) = 1
    /\ commands[1].waiting_at = 0
    /\ commands[1].running_at = Some(0)
    /\ commands[1].terminated_at = Some(1770830000)
    /\ Len(Unwrap(frame).rows) = 1
    /\ Unwrap(frame).rows[1].run = <<45>>
    /\ Unwrap(frame).rows[1].comp # <<45>>
    /\ Unwrap(frame).detail # None

\* the number a string of decimal digits denotes
RECURSIVE DecValue(_)
DecValue(digits) ==
    IF digits = <<>> THEN 0
    ELSE DecValue(SubSeq(digits, 1, Len(digits) - 1)) * 10
         + (digits[Len(digits)] - 48)

IsDigits(str) == \A i \in 1..Len(str) : str[i] \in 48..57

\* cell reads as ms milliseconds in seconds: the whole seconds without
\* leading zeros, a point, and the remainder as exactly three digits
ShowsMs(cell, ms) ==
    /\ Len(cell) >= 5
    /\ cell[Len(cell) - 3] = 46
    /\ LET whole == SubSeq(cell, 1, Len(cell) - 4)
           rest == SubSeq(cell, Len(cell) - 2, Len(cell))
       IN  /\ IsDigits(whole) /\ IsDigits(rest)
           /\ Len(whole) > 1 => whole[1] # 48
           /\ DecValue(whole) * 1000 + DecValue(rest) = ms

\* a - b, or zero when that is negative
ClampedDiff(a, b) == IF a - b < 0 THEN 0 ELSE a - b

\* the duration cells of job c read at clock now_ms
DurationsShown(cells, c, now_ms) ==
    LET running_end == IF Unset(c.running_at) THEN now_ms ELSE c.running_at[1]
        terminated_end == IF Unset(c.terminated_at) THEN now_ms
                          ELSE c.terminated_at[1]
    IN  /\ c.waiting_at # 0 =>
              ShowsMs(cells.wait, ClampedDiff(running_end, c.waiting_at))
        /\ ~Unset(c.running_at) =>
              ShowsMs(cells.run, ClampedDiff(terminated_end, c.running_at[1]))
        /\ ~Unset(c.terminated_at) =>
              ShowsMs(cells.comp, ClampedDiff(now_ms, c.terminated_at[1]))

\* C15: for set instants the durations of a frame are, for the instant the
\* clock was read at, waiting = max(0, (running_at if set else now) -
\* waiting_at), running = max(0, (terminated_at if set else now) -
\* running_at), terminal = max(0, now - terminated_at), never negative for
\* instants out of order or after now, each shown as whole seconds, a point
\* and the millisecond remainder in exactly three digits.
C15_DurationsShown ==
    [][(pc = "draw" /\ pc' = "flush") =>
          LET rows == Unwrap(frame').rows
              detail == Unwrap(frame').detail
          IN  /\ \E now_ms \in RenderNows : \A j \in 1..Len(rows) :
                    DurationsShown(rows[j], commands[KeptAt(j)], now_ms)
              /\ detail # None =>
                    \E detail_now_ms \in RenderNows :
                        DurationsShown(Unwrap(detail), Unwrap(selected_command),
                                       detail_now_ms)]_vars

\* a frame with a job that ran before it waited and ended after the clock was
\* read: "0.000", "30.000" and "0.000"; its overlay is drawn too
C15_Witness ==
    /\ pc = "flush"
    /\ Len(Unwrap(frame).rows) = 1
    /\ commands[1].waiting_at = 1770836575
    /\ commands[1].running_at = Some(1770820000)
    /\ commands[1].terminated_at = Some(1770850000)
    /\ Unwrap(frame).rows[1].wait = <<48, 46, 48, 48, 48>>
    /\ Unwrap(frame).rows[1].run = <<51, 48, 46, 48, 48, 48>>
    /\ Unwrap(frame).rows[1].comp = <<48, 46, 48, 48, 48>>
    /\ Unwrap(frame).detail # None

\* an identifier as the table is to show it, counted in characters
Shortened(id) ==
    IF Len(id) <= 6 THEN id
    ELSE SubSeq(id, 1, 3) \o <<46, 46>> \o SubSeq(id, Len(id) - 2, Len(id))

\* C16: drawing a frame shows, for every identifier of length <= 6, the
\* identifier unchanged and, for every identifier of length > 6, its first 3
\* characters, "..", and its last 3 characters (8 characters).
C16_IdShortened ==
    [][pc = "draw" =>
          /\ pc' = "flush"
          /\ LET rows == Unwrap(frame').rows
             IN  \A j \in 1..Len(rows) :
                    /\ rows[j].id = Shortened(commands[KeptAt(j)].id)
                    /\ Len(commands[KeptAt(j)].id) > 6 => Len(rows[j].id) = 8]_vars

\* C17: every iteration goes refresh (if due), render, at most one input
\* transition, in this order: the loop head goes to the refresh exactly when
\* the tick is due and else to the render; a refresh is followed by the
\* render; the render draws the job list as the refresh left it and, unless
\* it panics, is followed by the wait for an event; whatever the wait brings, one input
\* handled in Browsing or DetailOpen or none, the loop head comes next.  The
\* job list changes only in the refresh and the mode and the snapshot only
\* in the input step.
C17_StepOrder ==
    [][/\ pc = "loop" =>
            /\ pc' = IF elapsed >= TickRateMs THEN "refresh" ELSE "draw"
            /\ UNCHANGED <<commands, table_state, filter_mode, selected_command>>
       /\ pc = "refresh" =>
            /\ pc' = "tick"
            /\ UNCHANGED <<table_state, filter_mode, selected_command>>
       /\ pc = "tick" =>
            /\ pc' = "draw"
            /\ UNCHANGED <<commands, table_state, filter_mode, selected_command>>
       /\ pc = "draw" =>
            /\ pc' \in {"flush", "panicked"}
            /\ UNCHANGED <<commands, filter_mode, selected_command>>
            /\ pc' = "flush" =>
                  /\ Len(Unwrap(frame').rows) = Cardinality(Kept)
                  /\ \A j \in 1..Cardinality(Kept) :
                        Unwrap(frame').rows[j].id = format_id(commands[KeptAt(j)].id)
       /\ pc = "flush" =>
            /\ pc' \in {"poll", "returned_err"}
            /\ UNCHANGED <<commands, table_state, filter_mode, selected_command>>
       /\ pc = "poll" =>
            /\ pc' \in {"loop", "returned_ok", "returned_err"}
            /\ UNCHANGED commands]_vars

\* a frame drawn in DetailOpen over a list of two jobs: a refresh, a render,
\* an Enter and a later render have happened
C17_Witness ==
    /\ pc = "flush"
    /\ DetailOpen
    /\ Len(commands) = 2
    /\ Len(Unwrap(frame).rows) = 2

\* C18: the render step changes none of the job list, the filter mode, the
\* selection cursor and the detail snapshot: the state after a render equals
\* the state before it.
C18_RenderPure ==
    [][pc = "draw" =>
          UNCHANGED <<commands, filter_mode, table_state, selected_command>>]_vars

(***************************************************************************)
(* The loop over a data source whose responses list the first n of its     *)
(* waiting jobs: the list grows and shrinks by whole rows under the        *)
(* cursor.                                                                 *)
(***************************************************************************)
\* most jobs a response of this data source lists
MaxNavJobs == 3

NavResponses ==
    {[i \in 1..n |-> Command(IdString(i), LBL_Waiting, 1770836575, None, None)] :
        n \in 0..MaxNavJobs}
NavResults == {Err} \cup {Ok(resp) : resp \in NavResponses}

NavNext ==
    \/ RefreshDue
    \/ RefreshNotDue
    \/ \E result \in NavResults : Refresh(result)
    \/ RefreshNoClient
    \/ ResetTick
    \/ \E now_ms, detail_now_ms \in Nows : Draw(now_ms, detail_now_ms)
    \/ DrawReturns
    \/ DrawError
    \/ PollTimeout
    \/ EventError
    \/ OtherEvent
    \/ \E k \in Keys : KeyEvent(k)

NavSpec == Init /\ [][NavNext]_vars

\* C19: in Browsing over a non-empty filtered list of length n, after a
\* move-next or a move-previous input the cursor is Some(i) with 0 <= i < n,
\* whatever the cursor was before, also one left beyond n-1 by a refresh
\* that shrank the list.
C19_NavigationRepairsCursor ==
    [][\A k \in {"Down", "j", "Up", "k"} :
          (Browsing /\ Len(Filtered) > 0 /\ KeyEvent(k)) =>
              /\ table_state' # None
              /\ Unwrap(table_state') >= 0
              /\ Unwrap(table_state') < Len(Filtered)]_vars

(***************************************************************************)
(* The loop while draw, poll and read succeed, with a user who does not    *)
(* forever decline to close the detail view or to quit: every behaviour    *)
(* of this specification extends a run of the loop, and every run of the   *)
(* loop free of I/O errors can be extended to one of its behaviours.       *)
(***************************************************************************)
QuitNext ==
    \/ RefreshDue
    \/ RefreshNotDue
    \/ \E result \in GetCommandsResults : Refresh(result)
    \/ RefreshNoClient
    \/ ResetTick
    \/ \E now_ms, detail_now_ms \in Nows : Draw(now_ms, detail_now_ms)
    \/ DrawReturns
    \/ PollTimeout
    \/ OtherEvent
    \/ \E k \in Keys : KeyEvent(k)

UserClosesDetail == DetailOpen /\ \E k \in CloseKeys : KeyEvent(k)
UserQuits == Browsing /\ KeyEvent("q")

QuitSpec ==
    /\ Init
    /\ [][QuitNext]_vars
    /\ WF_vars(QuitNext)
    /\ SF_vars(UserClosesDetail)
    /\ SF_vars(UserQuits)

\* in DetailOpen a key other than Enter, Left and Backspace, q included,
\* changes nothing of App and the loop goes on
DetailIgnoresOtherKeys ==
    [][\A k \in Keys \ {"Enter", "Left", "Backspace"} :
          (DetailOpen /\ KeyEvent(k)) =>
              /\ UNCHANGED <<commands, table_state, filter_mode, selected_command,
                             client>>
              /\ pc' = "loop"]_vars

\* the loop returns Ok only by the quit key handled in Browsing
QuitOnlyFromBrowsing ==
    [][(pc' = "returned_ok" /\ pc # "returned_ok") =>
          (Browsing /\ KeyEvent("q"))]_vars

\* C20: the quit input ends the loop only from Browsing; in DetailOpen the
\* quit key and every key other than Enter, Left and Backspace leave the
\* state as it is and the loop running; and from every state in which the
\* loop runs the state after quit can still be reached: a user who closes
\* the detail view and then quits gets there.
C20_QuitOnlyFromBrowsing ==
    /\ DetailIgnoresOtherKeys
    /\ QuitOnlyFromBrowsing
    /\ <>(pc = "returned_ok")

\* the loop head after a key was handled in the detail view open over the
\* only row
C20_Witness ==
    /\ DetailOpen
    /\ pc = "loop"
    /\ Len(commands) = 1
    /\ table_state = Some(0)

====
